---------------------------- MODULE Spec2Model ----------------------------
(***************************************************************************)
(* A model of jeff_agents' two utility wrappers:                           *)
(*   src/src/utils/mineru_client.py  MinueruClient (parse, parse_single,   *)
(*                                   test_connection and their helpers)    *)
(*   src/src/utils/doc_utils.py      convert_doc_to_docx                   *)
(*                                                                         *)
(* Strings the code takes apart (paths, response bodies) are sequences of  *)
(* one-character strings, so that suffix extraction, lower-casing and      *)
(* decoding are computed, not assumed.  Strings the code only passes on    *)
(* (MIME types, exception class names) are TLA+ strings.                   *)
(***************************************************************************)
EXTENDS Integers, Sequences, FiniteSets, TLC

VARIABLES
    op,          \* the public method the caller invoked ("none" before a call)
    pc,          \* position inside that method
    local_files, \* parse's argument
    prep,        \* _prepare_files' local list `files`
    files,       \* parse's local list `files`
    handles,     \* every file object opened during the call, by handle id
    idx,         \* loop index of the for loop being run
    exc,         \* the exception in flight ("none" when there is none)
    response,    \* what requests.post returned
    posts,       \* number of POST requests issued during the call
    result,      \* the value returned to the caller
    raised,      \* the exception class that reached the caller ("none")
    tc,          \* test_connection's call record
    conv,        \* convert_doc_to_docx's call record
    mime         \* _detect_mime_type's call record

vars == <<op, pc, local_files, prep, files, handles, idx, exc, response,
          posts, result, raised, tc, conv, mime>>

parseVars == <<op, pc, local_files, prep, files, handles, idx, exc,
               response, posts, result, raised, tc>>

----------------------------------------------------------------------------
(* Bounds *)

\* longest path list handed to parse
MaxPaths == 3
\* longest exhaustively enumerated file name handed to _detect_mime_type
MaxNameLen == 4

----------------------------------------------------------------------------
(* Character sequences *)

RECURSIVE SeqsUpTo(_, _)
SeqsUpTo(S, n) ==
    IF n = 0 THEN {<<>>}
    ELSE LET shorter == SeqsUpTo(S, n - 1)
         IN  shorter \cup {Append(s, c) : s \in shorter, c \in S}

\* str.rfind(ch): the last index of ch in s, 0 when there is none
\* (indices are 1-based here, so Python's -1 is 0)
RFind(s, ch) ==
    LET hits == {i \in 1..Len(s) : s[i] = ch}
    IN  IF hits = {} THEN 0 ELSE CHOOSE i \in hits : \A j \in hits : j <= i

\* s[i:] with a 1-based i
From(s, i) == SubSeq(s, i, Len(s))

\* s[:i] keeping the first i characters
Upto(s, i) == SubSeq(s, 1, i)

UpperToLower ==
    [c \in {"A","B","C","D","E","F","G","H","I","J","K","L","M",
            "N","O","P","Q","R","S","T","U","V","W","X","Y","Z"} |->
        CASE c = "A" -> "a" [] c = "B" -> "b" [] c = "C" -> "c" [] c = "D" -> "d"
          [] c = "E" -> "e" [] c = "F" -> "f" [] c = "G" -> "g" [] c = "H" -> "h"
          [] c = "I" -> "i" [] c = "J" -> "j" [] c = "K" -> "k" [] c = "L" -> "l"
          [] c = "M" -> "m" [] c = "N" -> "n" [] c = "O" -> "o" [] c = "P" -> "p"
          [] c = "Q" -> "q" [] c = "R" -> "r" [] c = "S" -> "s" [] c = "T" -> "t"
          [] c = "U" -> "u" [] c = "V" -> "v" [] c = "W" -> "w" [] c = "X" -> "x"
          [] c = "Y" -> "y" [] c = "Z" -> "z"]

\* str.lower()
Lower(s) ==
    [i \in 1..Len(s) |->
        IF s[i] \in DOMAIN UpperToLower THEN UpperToLower[s[i]] ELSE s[i]]

----------------------------------------------------------------------------
(* pathlib.Path as _prepare_files and _detect_mime_type use it *)

\* The components of a path: split at "/", the empty and "." components
\* dropped, as Path(...) does when it parses its argument.
RECURSIVE Components(_)
Components(p) ==
    IF p = <<>> THEN <<>>
    ELSE LET cut  == CHOOSE i \in 1..(Len(p) + 1) :
                        /\ i = Len(p) + 1 \/ p[i] = "/"
                        /\ \A j \in 1..(i - 1) : p[j] # "/"
             part == Upto(p, cut - 1) \* text before the first "/"
             rest == IF cut > Len(p) THEN <<>> ELSE From(p, cut + 1)
         IN IF part = <<>> \/ part = <<".">>
             THEN Components(rest)
             ELSE <<part>> \o Components(rest)

\* Path.name: the final component, "" when there is none
PathName(p) ==
    LET cs == Components(p)
    IN  IF cs = <<>> THEN <<>> ELSE cs[Len(cs)]

\* Path.suffix: the final component from its last dot on, when that dot is
\* neither its first nor its last character (pathlib before Python 3.14).
PathSuffix(p) ==
    LET name == PathName(p)
        i    == RFind(name, ".")
    IN  IF 1 < i /\ i < Len(name) THEN From(name, i) ELSE <<>>

----------------------------------------------------------------------------
(* MinueruClient._detect_mime_type *)

OctetStream == "application/octet-stream"

\* mime_map, keyed by the suffix with its leading dot
mime_map ==
    (<<".","p","d","f">> :> "application/pdf")
 @@ (<<".","d","o","c">> :> "application/msword")
 @@ (<<".","d","o","c","x">> :>
        "application/vnd.openxmlformats-officedocument.wordprocessingml.document")
 @@ (<<".","x","l","s">> :> "application/vnd.ms-excel")
 @@ (<<".","x","l","s","x">> :>
        "application/vnd.openxmlformats-officedocument.spreadsheetml.sheet")
 @@ (<<".","p","p","t">> :> "application/vnd.ms-powerpoint")
 @@ (<<".","p","p","t","x">> :>
        "application/vnd.openxmlformats-officedocument.presentationml.presentation")
 @@ (<<".","t","x","t">> :> "text/plain")
 @@ (<<".","m","d">> :> "text/markdown")
 @@ (<<".","h","t","m","l">> :> "text/html")
 @@ (<<".","h","t","m">> :> "text/html")

\* Mutant of DetectSuffix: the suffix is looked up as written, not lower-cased.
DetectSuffixCaseSensitive(file_path) == PathSuffix(file_path)

\* suffix = file_path.suffix.lower()
DetectSuffix(file_path) == Lower(PathSuffix(file_path))

\* mime_map.get(suffix, 'application/octet-stream')
DetectMimeType(file_path) ==
    LET suffix == DetectSuffix(file_path)
    IN  IF suffix \in DOMAIN mime_map THEN mime_map[suffix] ELSE OctetStream

----------------------------------------------------------------------------
(* The local file system the client runs against *)

\* "a.pdf" and "d/b.TXT" are readable regular files, "dir" is a directory,
\* "m.doc" does not exist, "s.md" is a regular file that open() refuses
\* (no read permission).
PathPdf     == <<"a",".","p","d","f">>
PathTxt     == <<"d","/","b",".","T","X","T">>
PathDir     == <<"d","i","r">>
PathMissing == <<"m",".","d","o","c">>
PathLocked  == <<"s",".","m","d">>

Paths == {PathPdf, PathTxt, PathDir, PathMissing, PathLocked}

\* Path.exists()
Exists(p) == p # PathMissing

\* Path.is_file()
IsFile(p) == p \in {PathPdf, PathTxt, PathLocked}

\* whether open(p, 'rb') returns a file object rather than raising OSError
CanOpen(p) == p \in {PathPdf, PathTxt}

PathLists == SeqsUpTo(Paths, MaxPaths)

----------------------------------------------------------------------------
(* Python values and response.json() *)

PyNone        == [t |-> "None"]
PyInt(n)      == [t |-> "int", n |-> n]
PyStr(s)      == [t |-> "str", s |-> s]
PyList(items) == [t |-> "list", items |-> items]
PyDict(items) == [t |-> "dict", items |-> items]

\* No value at all: the call did not return (yet, or it raised).
NoValue == [t |-> "unset"]

Digits == {"0","1","2","3","4","5","6","7","8","9"}

DigitValue(c) ==
    CASE c = "0" -> 0 [] c = "1" -> 1 [] c = "2" -> 2 [] c = "3" -> 3
      [] c = "4" -> 4 [] c = "5" -> 5 [] c = "6" -> 6 [] c = "7" -> 7
      [] c = "8" -> 8 [] c = "9" -> 9

ParseFail == [ok |-> FALSE, val |-> PyNone, rest |-> <<>>]

ParseOk(v, rest) == [ok |-> TRUE, val |-> v, rest |-> rest]

\* d[k] = v on a dict kept as a sequence of items in insertion order
DictSet(items, k, v) ==
    IF \E i \in 1..Len(items) : items[i].key = k
    THEN [i \in 1..Len(items) |->
            IF items[i].key = k THEN [key |-> k, val |-> v] ELSE items[i]]
    ELSE Append(items, [key |-> k, val |-> v])

\* an integer literal: "0", or a non-zero digit followed by digits
RECURSIVE ParseDigits(_, _)
ParseDigits(s, n) ==
    IF s # <<>> /\ s[1] \in Digits
    THEN ParseDigits(Tail(s), 10 * n + DigitValue(s[1]))
    ELSE ParseOk(PyInt(n), s)

\* a string literal without escapes: quote, characters, quote
ParseString(s) ==
    IF s = <<>> \/ s[1] # "\"" THEN ParseFail
    ELSE LET closing == {i \in 2..Len(s) : s[i] = "\""}
         IN  IF closing = {} THEN ParseFail
             ELSE LET j == CHOOSE i \in closing : \A k \in closing : i <= k
                  IN  ParseOk(PyStr(SubSeq(s, 2, j - 1)), From(s, j + 1))

RECURSIVE ParseValue(_), ParseElements(_, _), ParseMembers(_, _)

ParseValue(s) ==
    IF s = <<>> THEN ParseFail
    ELSE IF Len(s) >= 4 /\ Upto(s, 4) = <<"n","u","l","l">>
        THEN ParseOk(PyNone, From(s, 5))
    ELSE IF s[1] = "0" THEN ParseOk(PyInt(0), Tail(s))
    ELSE IF s[1] \in Digits THEN ParseDigits(s, 0)
    ELSE IF s[1] = "\"" THEN ParseString(s)
    ELSE IF s[1] = "["
        THEN IF Len(s) >= 2 /\ s[2] = "]"
             THEN ParseOk(PyList(<<>>), From(s, 3))
             ELSE ParseElements(Tail(s), <<>>)
    ELSE IF s[1] = "{"
        THEN IF Len(s) >= 2 /\ s[2] = "}"
             THEN ParseOk(PyDict(<<>>), From(s, 3))
             ELSE ParseMembers(Tail(s), <<>>)
    ELSE ParseFail

ParseElements(s, acc) ==
    LET v == ParseValue(s)
    IN  IF ~v.ok \/ v.rest = <<>> THEN ParseFail
        ELSE IF v.rest[1] = ","
            THEN ParseElements(Tail(v.rest), Append(acc, v.val))
        ELSE IF v.rest[1] = "]"
            THEN ParseOk(PyList(Append(acc, v.val)), Tail(v.rest))
        ELSE ParseFail

ParseMembers(s, acc) ==
    LET k == ParseString(s)
    IN  IF ~k.ok \/ k.rest = <<>> \/ k.rest[1] # ":" THEN ParseFail
        ELSE LET v == ParseValue(Tail(k.rest))
             IN  IF ~v.ok \/ v.rest = <<>> THEN ParseFail
                 ELSE IF v.rest[1] = ","
                     THEN ParseMembers(Tail(v.rest), DictSet(acc, k.val.s, v.val))
                 ELSE IF v.rest[1] = "}"
                     THEN ParseOk(PyDict(DictSet(acc, k.val.s, v.val)), Tail(v.rest))
                 ELSE ParseFail

\* response.json(): the whole body must be one JSON value
JsonDecode(body) ==
    LET v == ParseValue(body)
    IN  IF v.ok /\ v.rest = <<>>
        THEN [ok |-> TRUE, val |-> v.val]
        ELSE [ok |-> FALSE, val |-> PyNone]

\* Response bodies the service is taken to send
BodyEmptyDict == <<"{","}">>
BodyDict      == <<"{","\"","k","\"",":","1","}">>
BodyDupKey    == <<"{","\"","k","\"",":","1",",","\"","k","\"",":","2","0","}">>
BodyNull      == <<"n","u","l","l">>
BodyList      == <<"[","1",",","n","u","l","l",",","\"","m","d","\"","]">>
BodyEmpty     == <<>>
BodyTruncated == <<"{","\"","k","\"",":","1">>
BodyHtml      == <<"<","h",">">>
BodyTrailing  == <<"{","}","x">>

Bodies == {BodyEmptyDict, BodyDict, BodyDupKey, BodyNull, BodyList,
           BodyEmpty, BodyTruncated, BodyHtml, BodyTrailing}

\* HTTP status codes the service is taken to answer with
Statuses == {200, 204, 404, 500}

----------------------------------------------------------------------------
(* Exception classes and the except clauses *)

\* the direct base classes of each exception class the calls can raise
Bases ==
    [c \in {"Exception", "ValueError", "OSError", "FileNotFoundError",
            "PermissionError", "JSONDecodeError", "SimplejsonJSONDecodeError",
            "RequestException", "RequestsJSONDecodeError", "Timeout",
            "ConnectionError", "ConnectTimeout", "CalledProcessError"} |->
        CASE c = "Exception"                 -> {}
          [] c = "ValueError"                -> {"Exception"}
          [] c = "OSError"                   -> {"Exception"}
          [] c = "FileNotFoundError"         -> {"OSError"}
          [] c = "PermissionError"           -> {"OSError"}
          [] c = "JSONDecodeError"           -> {"ValueError"}
          [] c = "SimplejsonJSONDecodeError" -> {"ValueError"}
          [] c = "RequestException"          -> {"OSError"}
          [] c = "RequestsJSONDecodeError"   -> {"RequestException", "JSONDecodeError"}
          [] c = "Timeout"                   -> {"RequestException"}
          [] c = "ConnectionError"           -> {"RequestException"}
          [] c = "ConnectTimeout"            -> {"ConnectionError", "Timeout"}
          [] c = "CalledProcessError"        -> {"Exception"}]

RECURSIVE IsInstance(_, _)
IsInstance(e, cls) ==
    \/ e = cls
    \/ \E b \in Bases[e] : IsInstance(b, cls)

\* The first clause of an except chain that catches e, 0 when none does.
FirstMatch(clauses, e) ==
    LET hits == {i \in 1..Len(clauses) : IsInstance(e, clauses[i])}
    IN  IF hits = {} THEN 0 ELSE CHOOSE i \in hits : \A j \in hits : i <= j

----------------------------------------------------------------------------
(* Call records and the initial state *)

NoResponse == [status |-> 0, body |-> <<>>, error |-> "none"]

TcIdle == [called |-> FALSE, status |-> 0, error |-> "none",
           result |-> FALSE, raised |-> "none"]

ConvIdle(p) == [pc |-> "idle", input |-> p, exit |-> 0, spawned |-> FALSE,
                exists |-> FALSE, result |-> NoValue, raised |-> "none"]

MimeIdle(p) == [called |-> FALSE, path |-> p, result |-> ""]

ClientInit ==
    /\ op = "none"
    /\ pc = "idle"
    /\ local_files = <<>>
    /\ prep = <<>>
    /\ files = <<>>
    /\ handles = <<>>
    /\ idx = 0
    /\ exc = "none"
    /\ response = NoResponse
    /\ posts = 0
    /\ result = NoValue
    /\ raised = "none"
    /\ tc = TcIdle

Init ==
    /\ ClientInit
    /\ conv = ConvIdle(<<>>)
    /\ mime = MimeIdle(<<>>)

----------------------------------------------------------------------------
(* MinueruClient._prepare_files *)

\* ('files', (file_path.name, open(file_path, 'rb'), mime_type))
UploadEntry(p, h) ==
    [field |-> "files", name |-> PathName(p), handle |-> h,
     mime |-> DetectMimeType(p)]

OpenHandle(p) == [path |-> p, state |-> "open", closeCalls |-> 0,
                  closeErr |-> FALSE]

\* An exception leaves _prepare_files: its frame, and with it its list
\* `files`, is gone; parse's `files` is still the [] of line 130.
PrepareRaises(e) ==
    /\ exc' = e
    /\ pc' = "except"
    /\ UNCHANGED <<op, local_files, prep, files, handles, idx, response,
                   posts, result, raised, tc, conv, mime>>

\* if not local_files: raise ValueError
PrepareEmpty ==
    /\ pc = "prepare"
    /\ local_files = <<>>
    /\ PrepareRaises("ValueError")

\* if not file_path.exists(): raise FileNotFoundError
PrepareMissing ==
    /\ pc = "prepare"
    /\ idx \in 1..Len(local_files)
    /\ ~Exists(local_files[idx])
    /\ PrepareRaises("FileNotFoundError")

\* if not file_path.is_file(): raise ValueError
PrepareNotFile ==
    /\ pc = "prepare"
    /\ idx \in 1..Len(local_files)
    /\ Exists(local_files[idx])
    /\ ~IsFile(local_files[idx])
    /\ PrepareRaises("ValueError")

\* open(file_path, 'rb') raises
PrepareOpenFails ==
    /\ pc = "prepare"
    /\ idx \in 1..Len(local_files)
    /\ Exists(local_files[idx])
    /\ IsFile(local_files[idx])
    /\ ~CanOpen(local_files[idx])
    /\ PrepareRaises("PermissionError")

\* files.append(('files', (file_path.name, open(file_path, 'rb'), mime_type)))
PrepareOpen ==
    /\ pc = "prepare"
    /\ idx \in 1..Len(local_files)
    /\ Exists(local_files[idx])
    /\ IsFile(local_files[idx])
    /\ CanOpen(local_files[idx])
    /\ handles' = Append(handles, OpenHandle(local_files[idx]))
    /\ prep' = Append(prep, UploadEntry(local_files[idx], Len(handles) + 1))
    /\ idx' = idx + 1
    /\ UNCHANGED <<op, pc, local_files, files, exc, response, posts, result,
                   raised, tc, conv, mime>>

\* What parse's `files` is bound to when _prepare_files returns.
\* Mutant of PreparedFiles: the last entry is dropped.
PreparedFilesShort(entries) == Upto(entries, Len(entries) - 1)

\* return files
PreparedFiles(entries) == entries

\* files = self._prepare_files(local_files), the call returning
PrepareReturn ==
    /\ pc = "prepare"
    /\ local_files # <<>>
    /\ idx > Len(local_files)
    /\ files' = PreparedFiles(prep)
    /\ pc' = "post"
    /\ UNCHANGED <<op, local_files, prep, handles, idx, exc, response, posts,
                   result, raised, tc, conv, mime>>

----------------------------------------------------------------------------
(* MinueruClient.parse and parse_single *)

\* the body of parse up to the call of _prepare_files
EnterParse(name, paths) ==
    /\ pc = "idle"
    /\ op' = name
    /\ local_files' = paths
    /\ files' = <<>>
    /\ prep' = <<>>
    /\ idx' = 1
    /\ pc' = "prepare"
    /\ UNCHANGED <<handles, exc, response, posts, result, raised, tc, conv,
                   mime>>

Parse == \E paths \in PathLists : EnterParse("parse", paths)

\* return self.parse([file_path])
ParseSingle == \E p \in Paths : EnterParse("parse_single", <<p>>)

\* exceptions requests.post and requests.get are taken to raise
TransportErrors == {"Timeout", "ConnectionError", "ConnectTimeout",
                    "RequestException"}

\* response = requests.post(...) returning a response
PostResponds ==
    /\ pc = "post"
    /\ \E st \in Statuses, body \in Bodies :
          response' = [status |-> st, body |-> body, error |-> "none"]
    /\ posts' = posts + 1
    /\ pc' = "status"
    /\ UNCHANGED <<op, local_files, prep, files, handles, idx, exc, result,
                   raised, tc, conv, mime>>

\* response = requests.post(...) raising
PostRaises ==
    /\ pc = "post"
    /\ \E e \in TransportErrors :
          /\ exc' = e
          /\ response' = [NoResponse EXCEPT !.error = e]
    /\ posts' = posts + 1
    /\ pc' = "except"
    /\ UNCHANGED <<op, local_files, prep, files, handles, idx, result,
                   raised, tc, conv, mime>>

\* Leaving the try block for the finally block with a return value.
ReturnValue(v) ==
    /\ result' = v
    /\ exc' = "none"
    /\ idx' = 1
    /\ pc' = "finally"
    /\ UNCHANGED <<op, local_files, prep, files, handles, response, posts,
                   raised, tc, conv, mime>>

\* Mutant of IsSuccessStatus: every 2xx status is taken for success.
IsSuccessStatusAny2xx(st) == st >= 200 /\ st < 300

\* if response.status_code == 200
IsSuccessStatus(st) == st = 200

\* Mutant of ParseResult: the decoded payload is dropped.
ParseResultNone(decoded) == PyNone

\* result = response.json(); return result
ParseResult(decoded) == decoded

\* status 200 and the body decodes
DecodeOk ==
    /\ pc = "status"
    /\ IsSuccessStatus(response.status)
    /\ JsonDecode(response.body).ok
    /\ ReturnValue(ParseResult(JsonDecode(response.body).val))

\* the classes response.json() raises for an undecodable body: requests' own
\* JSONDecodeError, or simplejson's when requests was built on simplejson
DecodeErrors == {"RequestsJSONDecodeError", "SimplejsonJSONDecodeError"}

\* status 200 and the body does not decode: except json.JSONDecodeError
\* returns None; a class it does not catch goes on to the outer clauses
DecodeFails ==
    /\ pc = "status"
    /\ IsSuccessStatus(response.status)
    /\ ~JsonDecode(response.body).ok
    /\ \E e \in DecodeErrors :
          IF IsInstance(e, "JSONDecodeError")
          THEN ReturnValue(PyNone)
          ELSE /\ exc' = e
               /\ pc' = "except"
               /\ UNCHANGED <<op, local_files, prep, files, handles, idx,
                              response, posts, result, raised, tc, conv, mime>>

\* else: ... return None
BadStatus ==
    /\ pc = "status"
    /\ ~IsSuccessStatus(response.status)
    /\ ReturnValue(PyNone)

\* Mutant of ParseExcept: the catch-all clause is missing.
ParseExceptNoCatchAll == <<"Timeout", "ConnectionError", "FileNotFoundError">>

\* Mutant of ParseExcept: only the transport's errors are caught.
ParseExceptTransportOnly == <<"Timeout", "ConnectionError">>

\* the except clauses of parse, in order; each one returns None
ParseExcept == <<"Timeout", "ConnectionError", "FileNotFoundError", "Exception">>

\* An exception reaches parse's except clauses: the first clause that
\* matches returns None; with no match it stays in flight through finally.
Except ==
    /\ pc = "except"
    /\ IF FirstMatch(ParseExcept, exc) # 0
       THEN ReturnValue(PyNone)
       ELSE /\ idx' = 1
            /\ pc' = "finally"
            /\ UNCHANGED <<op, local_files, prep, files, handles, exc,
                           response, posts, result, raised, tc, conv, mime>>

----------------------------------------------------------------------------
(* MinueruClient._close_files, run by parse's finally block *)

\* Where the loop goes on after the i-th file: close() raising is caught
\* inside the loop body, so the next file is next either way.
\* Mutant of NextToClose: an error raised by close() ends the loop.
NextToCloseAbortOnError(i, n, err) == IF err THEN n + 1 ELSE i + 1

\* for file_tuple in files: try: ... except Exception: logger.warning(...)
NextToClose(i, n, err) == i + 1

\* if not file_obj.closed
ShouldClose(h) == h.state = "open"

\* file_obj.close(): the descriptor is released even when close() raises
\* (io.FileIO drops it before reporting the error).
Closed(h, err) ==
    [h EXCEPT !.state = "closed",
              !.closeCalls = h.closeCalls + 1,
              !.closeErr = err]

\* one iteration of the loop of _close_files
CloseFile ==
    /\ pc = "finally"
    /\ idx \in 1..Len(files)
    /\ LET h == files[idx].handle
       IN  IF ShouldClose(handles[h])
           THEN \E err \in BOOLEAN :
                   /\ handles' = [handles EXCEPT ![h] = Closed(handles[h], err)]
                   /\ idx' = NextToClose(idx, Len(files), err)
           ELSE /\ handles' = handles
                /\ idx' = NextToClose(idx, Len(files), FALSE)
    /\ UNCHANGED <<op, pc, local_files, prep, files, exc, response, posts,
                   result, raised, tc, conv, mime>>

\* _close_files is done and parse returns: the value of the return
\* statement that ran, or the exception still in flight
Return ==
    /\ pc = "finally"
    /\ idx > Len(files)
    /\ pc' = "done"
    /\ raised' = exc
    /\ result' = IF exc = "none" THEN result ELSE NoValue
    /\ UNCHANGED <<op, local_files, prep, files, handles, idx, exc, response,
                   posts, tc, conv, mime>>

\* The file objects parse has no reference to: those _prepare_files opened
\* before it raised.
Leaked(h) ==
    /\ h \in 1..Len(handles)
    /\ \A i \in 1..Len(files) : files[i].handle # h

\* The runtime's collector finalizes an unreferenced file object, which
\* closes it.  When it does so is up to the runtime: at once under
\* reference counting, at some later collection (possibly after parse has
\* returned) otherwise.
GcFinalize ==
    /\ pc \in {"except", "finally"}
    /\ \E h \in 1..Len(handles) :
          /\ Leaked(h)
          /\ handles[h].state = "open"
          /\ handles' = [handles EXCEPT ![h].state = "finalized"]
    /\ UNCHANGED <<op, pc, local_files, prep, files, idx, exc, response,
                   posts, result, raised, tc, conv, mime>>

----------------------------------------------------------------------------
(* MinueruClient.test_connection *)

\* The GET goes to base_url with '/file_parse' removed; the outcome of the
\* request is the transport's to choose, whatever the URL.

\* Mutant of TestConnectionExcept: only connection errors are caught.
TestConnectionExceptNarrow == <<"ConnectionError">>

\* except Exception as e: ... return False
TestConnectionExcept == <<"Exception">>

\* return response.status_code == 200
ConnectionOk(st) == st = 200

\* requests.get(...) returns a response
TestConnectionResponds ==
    /\ pc = "idle"
    /\ op' = "test_connection"
    /\ \E st \in Statuses :
          tc' = [called |-> TRUE, status |-> st, error |-> "none",
                 result |-> ConnectionOk(st), raised |-> "none"]
    /\ pc' = "done"
    /\ UNCHANGED <<local_files, prep, files, handles, idx, exc, response,
                   posts, result, raised, conv, mime>>

\* requests.get(...) raises
TestConnectionRaises ==
    /\ pc = "idle"
    /\ op' = "test_connection"
    /\ \E e \in TransportErrors :
          tc' = [called |-> TRUE, status |-> 0, error |-> e,
                 result |-> FALSE,
                 raised |-> IF FirstMatch(TestConnectionExcept, e) # 0
                            THEN "none" ELSE e]
    /\ pc' = "done"
    /\ UNCHANGED <<local_files, prep, files, handles, idx, exc, response,
                   posts, result, raised, conv, mime>>

----------------------------------------------------------------------------
(* The client's specification *)

Next ==
    \/ Parse
    \/ ParseSingle
    \/ PrepareEmpty
    \/ PrepareMissing
    \/ PrepareNotFile
    \/ PrepareOpenFails
    \/ PrepareOpen
    \/ PrepareReturn
    \/ PostResponds
    \/ PostRaises
    \/ DecodeOk
    \/ DecodeFails
    \/ BadStatus
    \/ Except
    \/ CloseFile
    \/ Return
    \/ GcFinalize
    \/ TestConnectionResponds
    \/ TestConnectionRaises

Spec == Init /\ [][Next]_vars

----------------------------------------------------------------------------
(* MinueruClient._detect_mime_type on its own *)

NameAlphabet == {"a", ".", "/", "m", "d", "M", "D"}

SampleNames ==
    { <<"a",".","p","d","f">>, <<"a",".","P","D","F">>, <<"a",".","P","d","f">>,
      <<"a",".","d","o","c">>, <<"a",".","D","o","c","X">>,
      <<"a",".","x","l","s">>, <<"a",".","X","L","S","X">>,
      <<"a",".","p","p","t">>, <<"a",".","p","p","T","x">>,
      <<"d","/","b",".","T","X","T">>, <<"a",".","b",".","t","x","t">>,
      <<"a",".","h","t","m","l">>, <<"a",".","H","T","M">>,
      <<"a",".","x","y","z">>, <<"p","d","f">>, <<".","p","d","f">>,
      <<".",".","p","d","f">>, <<"a",".","p","d","f","/">>,
      <<"a",".","p","d","f","x">>, <<"a",".","p","d","f",".">>,
      <<"a",".","p","d","f","/","b">>, <<"a",".","p","d","f","/",".">> }

MimeNames == SeqsUpTo(NameAlphabet, MaxNameLen) \cup SampleNames \cup Paths

MimeInit ==
    /\ ClientInit
    /\ conv = ConvIdle(<<>>)
    /\ mime \in {MimeIdle(p) : p \in MimeNames}

\* self._detect_mime_type(file_path)
DetectMime ==
    /\ ~mime.called
    /\ mime' = [mime EXCEPT !.called = TRUE,
                            !.result = DetectMimeType(mime.path)]
    /\ UNCHANGED <<parseVars, conv>>

MimeNext == DetectMime

MimeSpec == MimeInit /\ [][MimeNext]_vars

----------------------------------------------------------------------------
(* os.path as convert_doc_to_docx uses it (posixpath) *)

\* os.path.splitext(p): the extension starts at the last dot of the last
\* component, unless only dots precede it there
Splitext(p) ==
    LET sep == RFind(p, "/")
        dot == RFind(p, ".")
    IN  IF dot > sep /\ \E k \in (sep + 1)..(dot - 1) : p[k] # "."
        THEN <<Upto(p, dot - 1), From(p, dot)>>
        ELSE <<p, <<>> >>

RECURSIVE RStripSlash(_)
RStripSlash(s) ==
    IF s # <<>> /\ s[Len(s)] = "/" THEN RStripSlash(Upto(s, Len(s) - 1)) ELSE s

\* os.path.dirname(p)
Dirname(p) ==
    LET head == Upto(p, RFind(p, "/"))
    IN  IF head # <<>> /\ \E k \in 1..Len(head) : head[k] # "/"
        THEN RStripSlash(head)
        ELSE head

\* os.path.basename(p)
Basename(p) == From(p, RFind(p, "/") + 1)

\* os.path.join(a, b)
Join(a, b) ==
    IF b # <<>> /\ b[1] = "/" THEN b
    ELSE IF a = <<>> \/ a[Len(a)] = "/" THEN a \o b
    ELSE a \o <<"/">> \o b

----------------------------------------------------------------------------
(* convert_doc_to_docx *)

\* longest exhaustively enumerated input path
MaxConvLen == 3

ConvAlphabet == {"r", ".", "/", "d"}

ReportDoc == <<"r","e","p","o","r","t",".","d","o","c">>

ConvInputs == SeqsUpTo(ConvAlphabet, MaxConvLen) \cup {ReportDoc}

\* exit statuses soffice is taken to end with
ExitCodes == {0, 1, 77}

\* output_docx_path = os.path.splitext(input_doc_path)[0] + '.docx'
OutputDocxPath(input) == Splitext(input)[1] \o <<".","d","o","c","x">>

\* generated_file = os.path.join(os.path.dirname(output_docx_path),
\*                               os.path.basename(output_docx_path))
GeneratedFile(input) ==
    Join(Dirname(OutputDocxPath(input)), Basename(OutputDocxPath(input)))

ConvInit ==
    /\ ClientInit
    /\ mime = MimeIdle(<<>>)
    /\ conv \in {ConvIdle(p) : p \in ConvInputs}

\* except subprocess.CalledProcessError as e: ... return None
ConvertExcept == <<"CalledProcessError">>

\* subprocess.run cannot start soffice (it is not installed): the
\* FileNotFoundError is caught only if an except clause matches it
ConvertCannotSpawn ==
    /\ conv.pc = "idle"
    /\ conv' = IF FirstMatch(ConvertExcept, "FileNotFoundError") # 0
               THEN [conv EXCEPT !.pc = "done", !.result = PyNone]
               ELSE [conv EXCEPT !.pc = "done", !.raised = "FileNotFoundError"]
    /\ UNCHANGED <<parseVars, mime>>

\* soffice exits 0: the presence of the output file is checked and printed,
\* and generated_file is returned
ConvertExitsZero ==
    /\ conv.pc = "idle"
    /\ \E present \in BOOLEAN :
          conv' = [conv EXCEPT !.pc = "done",
                               !.spawned = TRUE,
                               !.exit = 0,
                               !.exists = present,
                               !.result = PyStr(GeneratedFile(conv.input))]
    /\ UNCHANGED <<parseVars, mime>>

\* soffice exits non-zero: check=True raises CalledProcessError, return None
ConvertExitsNonZero ==
    /\ conv.pc = "idle"
    /\ \E code \in ExitCodes \ {0}, present \in BOOLEAN :
          conv' = IF FirstMatch(ConvertExcept, "CalledProcessError") # 0
                  THEN [conv EXCEPT !.pc = "done",
                                    !.spawned = TRUE,
                                    !.exit = code,
                                    !.exists = present,
                                    !.result = PyNone]
                  ELSE [conv EXCEPT !.pc = "done",
                                    !.spawned = TRUE,
                                    !.exit = code,
                                    !.exists = present,
                                    !.raised = "CalledProcessError"]
    /\ UNCHANGED <<parseVars, mime>>

ConvNext ==
    \/ ConvertCannotSpawn
    \/ ConvertExitsZero
    \/ ConvertExitsNonZero

ConvSpec == ConvInit /\ [][ConvNext]_vars

----------------------------------------------------------------------------
(* Properties *)

IsParseCall == op \in {"parse", "parse_single"}

ParseReturned == IsParseCall /\ pc = "done"

AllOpenable == local_files # <<>> /\ \A i \in 1..Len(local_files) : CanOpen(local_files[i])

\* C1: when parse returns, on whatever exit path, every file handle opened
\* during the call is closed, those opened before a later path failed
\* validation included.
C1_AllOpenedHandlesClosed ==
    ParseReturned => \A h \in 1..Len(handles) : handles[h].state # "open"

\* C2 as claimed: for an empty path collection parse raises InvalidInput
\* (ValueError) to its caller and issues no network request.
C2_EmptyRaisesToCaller ==
    (ParseReturned /\ local_files = <<>>) => (raised = "ValueError" /\ posts = 0)

\* C2 as amended: for an empty path collection _prepare_files raises
\* ValueError, parse catches it and returns None to its caller, and no
\* network request is issued.
C2_EmptyReturnsNone ==
    /\ (IsParseCall /\ pc = "except" /\ local_files = <<>>) =>
          (exc = "ValueError" /\ posts = 0)
    /\ (ParseReturned /\ local_files = <<>>) =>
          (raised = "none" /\ result = PyNone /\ posts = 0)

C2_Witness == ParseReturned /\ op = "parse" /\ local_files = <<>> /\ result = PyNone

HasMissingPath == \E i \in 1..Len(local_files) : ~Exists(local_files[i])

\* C3 as claimed: for a path collection holding a nonexistent path parse
\* raises FileNotFound to its caller and issues no network request.
C3_MissingRaisesToCaller ==
    (ParseReturned /\ HasMissingPath) =>
        (raised = "FileNotFoundError" /\ posts = 0)

\* C3 as amended: for a path collection holding a nonexistent path (at any
\* position) parse returns None to its caller without raising, and issues
\* no network request; the FileNotFoundError is raised by _prepare_files
\* when every path before the first nonexistent one could be opened.
C3_MissingReturnsNone ==
    /\ (IsParseCall /\ pc = "except" /\ idx \in 1..Len(local_files)
            /\ ~Exists(local_files[idx])) =>
          (exc = "FileNotFoundError" /\ posts = 0)
    /\ (ParseReturned /\ HasMissingPath) =>
          (raised = "none" /\ result = PyNone /\ posts = 0)

C3_Witness ==
    /\ ParseReturned
    /\ local_files = <<PathPdf, PathMissing>>
    /\ result = PyNone

\* C4: convert_doc_to_docx returns the output path if and only if soffice
\* exited 0 and a file exists at the output path afterwards; with exit 0 and
\* no output file, and with a non-zero exit, it returns None.
C4_PathIffOutputPresent ==
    (conv.pc = "done" /\ conv.spawned) =>
        IF conv.exit = 0 /\ conv.exists
        THEN conv.result = PyStr(GeneratedFile(conv.input))
        ELSE conv.result = PyNone

\* C5: when every path validates and the single POST answers 200 with a
\* body that decodes as JSON, parse returns exactly the decoded value.
C5_SuccessReturnsDecoded ==
    (ParseReturned /\ response.status = 200 /\ JsonDecode(response.body).ok) =>
        /\ result = JsonDecode(response.body).val
        /\ raised = "none"
        /\ posts = 1
        /\ response.body = BodyEmptyDict => result = PyDict(<<>>)
        /\ response.body = BodyDict =>
              result = PyDict(<<[key |-> <<"k">>, val |-> PyInt(1)]>>)
        /\ response.body = BodyDupKey =>
              result = PyDict(<<[key |-> <<"k">>, val |-> PyInt(20)]>>)

C5_Witness ==
    /\ ParseReturned
    /\ Len(local_files) = 2
    /\ response.status = 200
    /\ response.body = BodyDict
    /\ result = PyDict(<<[key |-> <<"k">>, val |-> PyInt(1)]>>)

\* C6: when every path validates and the POST answers a non-200 status, or
\* 200 with a body that does not decode, or raises (timeout, connection
\* error, any other exception), parse returns None and does not raise.
C6_FailuresReturnNone ==
    (ParseReturned /\ AllOpenable
        /\ ~(response.status = 200 /\ JsonDecode(response.body).ok)) =>
        (result = PyNone /\ raised = "none" /\ posts = 1)

C6_Witness ==
    /\ ParseReturned
    /\ AllOpenable
    /\ response.error = "RequestException"
    /\ result = PyNone

\* C7: test_connection never raises; it returns true exactly when the GET
\* completes with status 200, false for any other status and for any
\* exception the GET raises.
C7_TestConnectionBoolean ==
    tc.called =>
        /\ tc.raised = "none"
        /\ tc.result = (tc.error = "none" /\ tc.status = 200)

C7_Witness == tc.called /\ tc.error = "Timeout" /\ tc.result = FALSE

\* the file name and MIME type expected of each path of the file system
C8_Name(p) ==
    CASE p = PathPdf    -> <<"a",".","p","d","f">>
      [] p = PathTxt    -> <<"b",".","T","X","T">>
      [] p = PathLocked -> <<"s",".","m","d">>
      [] OTHER          -> p

C8_Mime(p) ==
    CASE p = PathPdf    -> "application/pdf"
      [] p = PathTxt    -> "text/plain"
      [] p = PathLocked -> "text/markdown"
      [] OTHER          -> OctetStream

\* parse's `files` is what _prepare_files must return for local_files: one
\* entry per path, in order, each with its own handle on that path
C8_EntriesMatch ==
    /\ Len(files) = Len(local_files)
    /\ \A i \in 1..Len(files) :
          /\ files[i].field = "files"
          /\ files[i].name = C8_Name(local_files[i])
          /\ files[i].mime = C8_Mime(local_files[i])
          /\ files[i].handle \in 1..Len(handles)
          /\ handles[files[i].handle].path = local_files[i]
          /\ pc = "post" => handles[files[i].handle].state = "open"
    /\ \A i, j \in 1..Len(files) : i # j => files[i].handle # files[j].handle

PrepareFinished == IsParseCall /\ pc \notin {"idle", "prepare"}

\* C8 as claimed: for every non-empty list of paths that all exist and are
\* regular files, _prepare_files returns one entry per path, in order:
\* field name 'files', the path's file name, an open handle on it, its
\* MIME type; duplicates are separate entries.
C8_ExistingFilesYieldEntries ==
    (PrepareFinished /\ local_files # <<>>
        /\ \A i \in 1..Len(local_files) :
              Exists(local_files[i]) /\ IsFile(local_files[i])) =>
        C8_EntriesMatch

\* C8 as amended: the same, for every non-empty list of paths that all
\* exist, are regular files and can be opened for binary reading; when
\* open() refuses a path, _prepare_files raises its OSError instead.
C8_OpenableFilesYieldEntries ==
    /\ (PrepareFinished /\ AllOpenable) => C8_EntriesMatch
    /\ (IsParseCall /\ pc = "except" /\ idx \in 1..Len(local_files)
            /\ IsFile(local_files[idx]) /\ ~CanOpen(local_files[idx])) =>
          exc = "PermissionError"

C8_Witness ==
    /\ IsParseCall
    /\ pc = "post"
    /\ local_files = <<PathTxt, PathPdf, PathTxt>>
    /\ Len(files) = 3
    /\ files[1].handle # files[3].handle

\* the extension as the claim reads it: the text after the last dot of the
\* final path component, when that dot is neither its first nor its last
\* character; empty otherwise
C9_Extension(p) ==
    LET name == PathName(p)
        dots == {i \in 1..Len(name) : name[i] = "."}
    IN  IF dots = {} THEN <<>>
        ELSE LET last == CHOOSE i \in dots : \A j \in dots : j <= i
             IN  IF last = 1 \/ last = Len(name) THEN <<>>
                 ELSE SubSeq(name, last + 1, Len(name))

\* the fixed table of the claim, keyed by lower-case extension
C9_Table ==
    (<<"p","d","f">> :> "application/pdf")
 @@ (<<"d","o","c">> :> "application/msword")
 @@ (<<"d","o","c","x">> :>
        "application/vnd.openxmlformats-officedocument.wordprocessingml.document")
 @@ (<<"x","l","s">> :> "application/vnd.ms-excel")
 @@ (<<"x","l","s","x">> :>
        "application/vnd.openxmlformats-officedocument.spreadsheetml.sheet")
 @@ (<<"p","p","t">> :> "application/vnd.ms-powerpoint")
 @@ (<<"p","p","t","x">> :>
        "application/vnd.openxmlformats-officedocument.presentationml.presentation")
 @@ (<<"t","x","t">> :> "text/plain")
 @@ (<<"m","d">> :> "text/markdown")
 @@ (<<"h","t","m","l">> :> "text/html")
 @@ (<<"h","t","m">> :> "text/html")

\* C9: _detect_mime_type is a total function of the lower-cased extension
\* only: an extension in the table, whatever its case, gives the table's
\* MIME type; any other path, one without extension included, gives
\* application/octet-stream.
C9_MimeByLowercaseExtension ==
    mime.called =>
        LET ext == Lower(C9_Extension(mime.path))
        IN  /\ mime.result =
                  IF ext \in DOMAIN C9_Table THEN C9_Table[ext] ELSE OctetStream
            /\ mime.path = <<"a",".","P","D","F">> =>
                  mime.result = "application/pdf"
            /\ mime.path = <<"a",".","x","y","z">> =>
                  mime.result = OctetStream

C9_Witness ==
    /\ mime.called
    /\ mime.path = <<"a",".","P","D","F">>
    /\ mime.result = "application/pdf"

\* C10: within one parse call close() is invoked at most once on each
\* opened handle, and close() raising on one handle does not keep the
\* remaining handles of the list from being closed.
C10_CloseOnceAndAll ==
    /\ \A h \in 1..Len(handles) : handles[h].closeCalls <= 1
    /\ ParseReturned =>
          \A i \in 1..Len(files) : handles[files[i].handle].closeCalls = 1

C10_Witness ==
    /\ ParseReturned
    /\ Len(files) = 3
    /\ handles[files[1].handle].closeErr
    /\ handles[files[2].handle].closeCalls = 1
    /\ handles[files[3].handle].state = "closed"

=============================================================================
